---- MODULE Spec2Model ----
(***************************************************************************)
(* Breach detection and notification pipeline of the Password Breach       *)
(* Notification System: the breach controller's request handlers, the      *)
(* Breach model's derived fields, the breach lookup service, the           *)
(* notification handlers and the sendAlerts batch job.                     *)
(*                                                                         *)
(* Every handler is an async function; each await is a suspension point,   *)
(* so a handler is a sequence of atomic steps and the steps of concurrent  *)
(* requests interleave.  The Breach collection is the shared state.        *)
(***************************************************************************)
EXTENDS Integers, Sequences, FiniteSets, TLC

VARIABLES
    store,       \* the Breach collection, in insertion order; _id = position
    pc,          \* per unit of work: the await the handler is suspended at
    req,         \* per unit of work: the handler's local variables
    resp,        \* the last response sent, with the request it answers
    started,     \* number of requests received so far
    serviceDef,  \* which definition of BreachService the controller got
    findings,    \* history: per key, the detections recorded and their sources
    emailsSent,  \* history: per record _id, the email sends that resolved
    fn           \* the state of the specifications of a single function,
                 \* of the lookup client and of the batch job

vars == <<store, pc, req, resp, started, serviceDef, findings, emailsSent, fn>>

\* Bound: number of requests the server receives in a run.
MaxRequests == 3

\* Concurrent units of work (requests in flight at the same time).
Procs == {1, 2}

\* Passwords: "" stands for a missing or empty password; "hunter2" is a
\* password nobody checks, whose suffix the corpus may also answer with.
Passwords == {"", "password123", "hunter2"}

\* The check requests received: <<userId, password>>.
CheckRequests ==
    {<<"u1", "">>, <<"u1", "password123">>, <<"u2", "password123">>}

\* Occurrence counts the corpus may report.
Counts == {1489, 100000}

\* The acknowledge requests received: <<userId, breachId>>.
AcknowledgeRequests == {<<"u1", 1>>, <<"u2", 1>>, <<"u1", 2>>}

\* The action requests received: <<userId, breachId, actionIndex>>.
ActionRequests ==
    {<<"u1", 1, -1>>, <<"u1", 1, 1>>, <<"u1", 1, 2>>, <<"u2", 1, 1>>, <<"u1", 2, 0>>}

\* The requests of the notification and read handlers are made by u2, who
\* owns record 1 in some runs and not in others.
\* The mark-as-read requests received: <<userId, notificationId>>.
MarkReadRequests == {<<"u2", 1>>}

\* The users asking to mark all read, and asking for their history.
MarkAllRequests == {"u2"}

HistoryRequests == {"u2"}

\* The users asking for their notifications.
NotificationsRequests == {"u2"}

\* The roles getGlobalBreachStats sees.
Roles == {"user", "admin"}

\* The getBreachById requests received: <<userId, breachId>>.
GetByIdRequests == {<<"u2", 1>>}

\* The search requests received: <<userId, acknowledged>>, the acknowledged
\* query parameter being "true", "false" or absent ("none").
SearchRequests == {<<"u2", "true">>}

None == "none"

(***************************************************************************)
(* utils/hashUtil: SHA-1 is modelled by its values on the passwords used.  *)
(***************************************************************************)
generateSHA1Hash(password) ==
    CASE password = "password123" -> "CBFDAC6008F9CAB4083784CBD1874F76618D2A97"
      [] password = "hunter2"     -> "F3BBBD66A63D4BF1747940578EC3D0103530E21D"
      [] password = "testpassword" -> "8BB6118F8FD6935AD0876A3BE34A717D32708FFD"
      [] password = "anypassword" -> "D8BBA58683E577CDD462E2CD1207808E1B01B3CB"
      [] password = "a"           -> "86F7E437FAA5A7FCE15D1DDCB9EAEAEA377667B8"
      [] password = "pw2001"      -> "DC0A55411C0E50F210B61C9B5287F642349ADE0F"
      [] password = "pw2501"      -> "DC0A57B817B98AB3A598850A5F234D92E89138D1"
      [] password = "pw212"       -> "B0B1663EADB34E25AB04838C9050A65C3A9E8F3C"
      [] password = "pw3684"      -> "B0B1627D7BA5223FD90571C4757276F0D4E1D600"
      [] OTHER                    -> "DA39A3EE5E6B4B0D3255BFEF95601890AFD80709"

\* String.prototype.substring(indexStart, indexEnd): 0-based, indexEnd
\* excluded, both clamped to 0..length and swapped when out of order.
substring(str, indexStart, indexEnd) ==
    LET clamp(i) == IF i < 0 THEN 0 ELSE IF i > Len(str) THEN Len(str) ELSE i
        lo == IF clamp(indexStart) <= clamp(indexEnd)
              THEN clamp(indexStart) ELSE clamp(indexEnd)
        hi == IF clamp(indexStart) <= clamp(indexEnd)
              THEN clamp(indexEnd) ELSE clamp(indexStart)
    IN  SubSeq(str, lo + 1, hi)

\* Mutant: the suffix starts one character late.
getHashPrefix_SuffixFromSix(password) ==
    LET hash == generateSHA1Hash(password)
    IN  [prefix |-> substring(hash, 0, 5),
         suffix |-> substring(hash, 6, Len(hash))]

\* hash.substring(0, 5) and hash.substring(5).
getHashPrefix(password) ==
    LET hash == generateSHA1Hash(password)
    IN  [prefix |-> substring(hash, 0, 5),
         suffix |-> substring(hash, 5, Len(hash))]

(***************************************************************************)
(* The corpus: an HTTP exchange either fails or answers with lines         *)
(* suffix:count.                                                           *)
(***************************************************************************)
ForeignLine == [suffix |-> "0018A45C4D1DEF81644B54AB7F969B88D65", count |-> 3]

Responses ==
    {[ok |-> FALSE, lines |-> <<>>]}
    \cup {[ok |-> TRUE, lines |-> <<ForeignLine>>]}
    \cup {[ok |-> TRUE,
           lines |-> <<ForeignLine, [suffix |-> getHashPrefix(pw).suffix, count |-> c]>>] :
            pw \in Passwords \ {""}, c \in Counts}

\* The passwords, counts and responses of the lookup client on its own.
LookupPasswords == {"password123", "hunter2"}

LookupCounts == {3, 100000}

\* A response line may carry its suffix in either case.
LowerChar(c) ==
    CASE c = "A" -> "a" [] c = "B" -> "b" [] c = "C" -> "c"
      [] c = "D" -> "d" [] c = "E" -> "e" [] c = "F" -> "f"
      [] OTHER -> c

RECURSIVE toLowerCase(_)
toLowerCase(str) ==
    IF Len(str) = 0 THEN str
    ELSE LowerChar(SubSeq(str, 1, 1)) \o toLowerCase(SubSeq(str, 2, Len(str)))

\* response.data of the range endpoint, or a rejected request.
LookupResponses ==
    {[ok |-> FALSE, lines |-> <<>>],
     [ok |-> TRUE, lines |-> <<>>],
     [ok |-> TRUE, lines |-> <<ForeignLine>>]}
    \cup {[ok |-> TRUE,
           lines |-> <<ForeignLine, [suffix |-> getHashPrefix(pw).suffix, count |-> c]>>] :
            pw \in LookupPasswords, c \in LookupCounts}
    \cup {[ok |-> TRUE,
           lines |-> <<[suffix |-> toLowerCase(getHashPrefix(pw).suffix), count |-> c],
                       [suffix |-> getHashPrefix(pw).suffix, count |-> c + 1]>>] :
            pw \in LookupPasswords, c \in LookupCounts}

\* String.prototype.toUpperCase on the characters a digest can hold.
UpperChar(c) ==
    CASE c = "a" -> "A" [] c = "b" -> "B" [] c = "c" -> "C"
      [] c = "d" -> "D" [] c = "e" -> "E" [] c = "f" -> "F"
      [] OTHER -> c

RECURSIVE toUpperCase(_)
toUpperCase(str) ==
    IF Len(str) = 0 THEN str
    ELSE UpperChar(SubSeq(str, 1, 1)) \o toUpperCase(SubSeq(str, 2, Len(str)))

\* The suffixes the lookup client compares: those of the response lines and
\* those of the passwords.
Suffixes ==
    UNION {{r.lines[i].suffix : i \in 1..Len(r.lines)} :
                r \in Responses \cup LookupResponses}
    \cup {getHashPrefix(pw).suffix : pw \in Passwords \cup LookupPasswords}

\* toUpperCase of each of them.
UpperCased == [str \in Suffixes |-> toUpperCase(str)]

\* hashes.find(hash => hash.split(":")[0].toUpperCase() ===
\* suffix.toUpperCase()): the first such line, or 0.
FindLine(lines, suffix) ==
    LET hits == {i \in 1..Len(lines) :
                    UpperCased[lines[i].suffix] = UpperCased[suffix]}
    IN  IF hits = {} THEN 0 ELSE CHOOSE i \in hits : \A j \in hits : i <= j

(***************************************************************************)
(* services/breachService                                                  *)
(***************************************************************************)
\* Mutant: exactly 10000 occurrences are not yet high.
calculateSeverity_StrictHigh(count) ==
    IF count >= 100000 THEN "critical"
    ELSE IF count > 10000 THEN "high"
    ELSE IF count >= 1000 THEN "medium"
    ELSE "low"

calculateSeverity(count) ==
    IF count >= 100000 THEN "critical"
    ELSE IF count >= 10000 THEN "high"
    ELSE IF count >= 1000 THEN "medium"
    ELSE "low"

Thrown == [thrown |-> TRUE]

\* Mutant: a failed exchange is reported as "not breached" (as the catch of
\* checkMultiplePasswords does) instead of being thrown.
checkPasswordBreach_FailureAsSafe(def, password, response) ==
    IF ~response.ok
    THEN IF def = 1
         THEN [breached |-> FALSE, count |-> 0, source |-> "HaveIBeenPwned",
               severity |-> "none"]
         ELSE [isBreached |-> FALSE, count |-> 0, source |-> "HaveIBeenPwned",
               details |-> "details"]
    ELSE
      LET suffix == getHashPrefix(password).suffix
          i == FindLine(response.lines, suffix)
      IN  IF def = 1
          THEN IF i # 0
               THEN [breached |-> TRUE, count |-> response.lines[i].count,
                     severity |-> calculateSeverity(response.lines[i].count),
                     source |-> "HaveIBeenPwned"]
               ELSE [breached |-> FALSE, count |-> 0,
                     source |-> "HaveIBeenPwned", severity |-> "none"]
          ELSE IF i # 0
               THEN [isBreached |-> TRUE, count |-> response.lines[i].count,
                     source |-> "HaveIBeenPwned",
                     severity |-> calculateSeverity(response.lines[i].count),
                     details |-> "details"]
               ELSE [isBreached |-> FALSE, count |-> 0,
                     source |-> "HaveIBeenPwned", details |-> "details"]

\* Mutant: the whole digest is put in the URL.
lookupRequest_SendsDigest(def, password, hibpApiKey) ==
    LET split == getHashPrefix(password)
        url == "https://api.pwnedpasswords.com/range/"
                    \o split.prefix \o split.suffix
        userAgent == "Password-Breach-Notification-System"
    IN  IF def = 2 /\ hibpApiKey # None
        THEN [url |-> url, timeout |-> 10000,
              headers |-> [userAgent |-> userAgent, hibpApiKey |-> hibpApiKey]]
        ELSE [url |-> url, timeout |-> 10000,
              headers |-> [userAgent |-> userAgent]]

\* axios.get(url + prefix, {timeout, headers}): the request either
\* definition sends; definition 2 adds the hibp-api-key header when the key
\* is configured.
lookupRequest(def, password, hibpApiKey) ==
    LET split == getHashPrefix(password)
        url == "https://api.pwnedpasswords.com/range/" \o split.prefix
        userAgent == "Password-Breach-Notification-System"
    IN  IF def = 2 /\ hibpApiKey # None
        THEN [url |-> url, timeout |-> 10000,
              headers |-> [userAgent |-> userAgent, hibpApiKey |-> hibpApiKey]]
        ELSE [url |-> url, timeout |-> 10000,
              headers |-> [userAgent |-> userAgent]]

\* The source file holds two definitions of the service.  Definition 1 (the
\* class the controller instantiates) reports `breached`; definition 2
\* reports `isBreached` and `details`.
checkPasswordBreach(def, password, response) ==
    IF ~response.ok THEN Thrown
    ELSE
      LET suffix == getHashPrefix(password).suffix
          i == FindLine(response.lines, suffix)
      IN  IF def = 1
          THEN IF i # 0
               THEN [breached |-> TRUE, count |-> response.lines[i].count,
                     severity |-> calculateSeverity(response.lines[i].count),
                     source |-> "HaveIBeenPwned"]
               ELSE [breached |-> FALSE, count |-> 0,
                     source |-> "HaveIBeenPwned", severity |-> "none"]
          ELSE IF i # 0
               THEN [isBreached |-> TRUE, count |-> response.lines[i].count,
                     source |-> "HaveIBeenPwned",
                     severity |-> calculateSeverity(response.lines[i].count),
                     details |-> "details"]
               ELSE [isBreached |-> FALSE, count |-> 0,
                     source |-> "HaveIBeenPwned", details |-> "details"]

\* A property read in JavaScript: a missing property is undefined (falsy).
HasField(obj, f) == f \in DOMAIN obj

Truthy(obj, f) == HasField(obj, f) /\ obj[f] = TRUE

(***************************************************************************)
(* models/Breach                                                           *)
(***************************************************************************)
\* Mutant: two medium sources already make the risk high (>= 2 for > 2).
calculateRiskLevel_OffByOne(breachSources) ==
    LET highRiskSources ==
            {i \in 1..Len(breachSources) :
                breachSources[i].severity \in {"critical", "high"}}
        mediumRiskSources ==
            {i \in 1..Len(breachSources) : breachSources[i].severity = "medium"}
    IN  IF Len(breachSources) = 0 THEN "low"
        ELSE IF Cardinality(highRiskSources) > 0 THEN "critical"
        ELSE IF Cardinality(mediumRiskSources) >= 2 THEN "high"
        ELSE IF Cardinality(mediumRiskSources) > 0 THEN "medium"
        ELSE "low"

calculateRiskLevel(breachSources) ==
    LET highRiskSources ==
            {i \in 1..Len(breachSources) :
                breachSources[i].severity \in {"critical", "high"}}
        mediumRiskSources ==
            {i \in 1..Len(breachSources) : breachSources[i].severity = "medium"}
    IN  IF Len(breachSources) = 0 THEN "low"
        ELSE IF Cardinality(highRiskSources) > 0 THEN "critical"
        ELSE IF Cardinality(mediumRiskSources) > 2 THEN "high"
        ELSE IF Cardinality(mediumRiskSources) > 0 THEN "medium"
        ELSE "low"

\* completed is absent from the pushed objects: the schema default is false.
Action(action, priority) ==
    [action |-> action, priority |-> priority, completed |-> FALSE]

\* Mutant: the extra actions are added for critical only.
generateRecommendedActions_CriticalOnly(riskLevel) ==
    <<Action("Change password immediately", "high")>>
    \o (IF riskLevel = "critical"
        THEN <<Action("Enable Two-Factor Authentication", "high"),
               Action("Review and update security questions", "medium"),
               Action("Check for unauthorized account access", "high")>>
        ELSE <<>>)
    \o <<Action("Monitor account for suspicious activity", "medium")>>

generateRecommendedActions(riskLevel) ==
    <<Action("Change password immediately", "high")>>
    \o (IF riskLevel \in {"critical", "high"}
        THEN <<Action("Enable Two-Factor Authentication", "high"),
               Action("Review and update security questions", "medium"),
               Action("Check for unauthorized account access", "high")>>
        ELSE <<>>)
    \o <<Action("Monitor account for suspicious activity", "medium")>>

\* Mutant: the hook recomputes nothing.
preSave_NoRecompute(doc, isNew, modified) == doc

\* pre("save"): a new document has every path it was built with modified.
preSave(doc, isNew, modified) ==
    IF isNew \/ "breachSources" \in modified
    THEN LET risk == calculateRiskLevel(doc.breachSources)
         IN  [doc EXCEPT !.riskLevel = risk,
                         !.recommendedActions = generateRecommendedActions(risk)]
    ELSE doc

\* new Breach({userId, passwordHash, breachSources, timesFound}) with the
\* schema defaults; _id is the position the insert will give it.  Dates are
\* kept as the event that set them: lastChecked is "firstDetected" (the
\* default, Date.now at creation) or "rechecked" (new Date() of a merge);
\* acknowledgedAt is unset ("none") or "set".
NewBreach(userId, passwordHash, source) ==
    [id |-> 0, userId |-> userId, passwordHash |-> passwordHash,
     breachSources |-> <<source>>, isActive |-> TRUE,
     lastChecked |-> "firstDetected",
     timesFound |-> 1, notificationsSent |-> 0, userAcknowledged |-> FALSE,
     acknowledgedAt |-> None, riskLevel |-> "medium",
     recommendedActions |-> <<>>]

BreachSource(breachResult) ==
    [name |-> breachResult.source, severity |-> breachResult.severity,
     affectedAccounts |-> breachResult.count]

(***************************************************************************)
(* Users: User.findById(userId) as the controller reads it.  u1 has both   *)
(* channels enabled and a phone; u2 has sms enabled but no phone and email *)
(* disabled.                                                               *)
(***************************************************************************)
findUserById(userId) ==
    IF userId = "u1"
    THEN [notificationPreferences |-> [email |-> TRUE, sms |-> TRUE], phone |-> TRUE]
    ELSE [notificationPreferences |-> [email |-> FALSE, sms |-> TRUE], phone |-> FALSE]

(***************************************************************************)
(* Persistence (mongoose documents)                                        *)
(***************************************************************************)
\* Breach.findOne({userId, passwordHash}): the first match in natural order.
findOneByKey(st, userId, passwordHash) ==
    LET hits == {i \in 1..Len(st) :
                    st[i].userId = userId /\ st[i].passwordHash = passwordHash}
    IN  IF hits = {} THEN 0 ELSE CHOOSE i \in hits : \A j \in hits : i <= j

\* Mutant: the query drops the userId condition.
findOneById_AnyOwner(st, breachId, userId) ==
    IF breachId \in 1..Len(st) THEN breachId ELSE 0

\* Breach.findOne({_id: breachId, userId}).
findOneById(st, breachId, userId) ==
    IF breachId \in 1..Len(st) /\ st[breachId].userId = userId THEN breachId ELSE 0

\* The document as the handler holds it after doc.save().
savedDoc(st, doc, isNew, modified) ==
    LET d == preSave(doc, isNew, modified)
    IN  IF isNew THEN [d EXCEPT !.id = Len(st) + 1] ELSE d

\* Mutant: a stored document is replaced by the handler's copy.
save_WholeDocument(st, doc, isNew, modified, pushed, setCompleted) ==
    LET d == savedDoc(st, doc, isNew, modified)
    IN  IF isNew THEN Append(st, d) ELSE [st EXCEPT ![d.id] = d]

\* doc.save(): a new document is inserted whole; for a stored one only the
\* modified paths are written ($set of the handler's value, $push of the
\* pushed array elements, $set of recommendedActions.<i>.completed).  The
\* hook's assignments modify recommendedActions (a new array) and modify
\* riskLevel when the value differs from the one the document was loaded
\* with.
save(st, doc, isNew, modified, pushed, setCompleted) ==
    LET d == savedDoc(st, doc, isNew, modified)
        mod == IF "breachSources" \in modified
               THEN modified \cup {"recommendedActions"}
                        \cup (IF d.riskLevel # doc.riskLevel
                              THEN {"riskLevel"} ELSE {})
               ELSE modified
    IN  IF isNew THEN Append(st, d)
        ELSE LET old == st[d.id]
             IN  [st EXCEPT ![d.id] =
                    [f \in DOMAIN old |->
                        CASE f = "breachSources" -> old[f] \o pushed
                          [] f = "recommendedActions" ->
                                IF f \in mod THEN d[f]
                                ELSE [i \in DOMAIN old[f] |->
                                        IF i \in setCompleted
                                        THEN [old[f][i] EXCEPT !.completed = TRUE]
                                        ELSE old[f][i]]
                          [] OTHER -> IF f \in mod THEN d[f] ELSE old[f]]]

(***************************************************************************)
(* State                                                                   *)
(***************************************************************************)
NoResult == [pending |-> TRUE]
NoDoc == [id |-> 0]

\* The locals of a handler, and what its external exchanges did.
IdleReq ==
    [op |-> None, userId |-> None, password |-> None, breachId |-> 0,
     actionIndex |-> 0,
     lookup |-> None,            \* the corpus exchange: failed, nomatch, match
     lookups |-> 0,              \* axios.get calls the handler has issued
     emailAttempts |-> 0,        \* sendBreachNotification calls made
     smsAttempts |-> 0,          \* sendBreachNotificationSMS calls made
     breachResult |-> NoResult,  \* what the service returned
     found |-> FALSE,            \* findOne returned a document
     doc |-> NoDoc, isNew |-> FALSE, modified |-> {}, pushed |-> <<>>,
     setCompleted |-> {},
     email |-> None,             \* email send: ok, failed
     sms |-> None]               \* SMS send: ok, false, failed

\* res.status(code).json({status, data}) of the handler with locals r.
Respond(r, status, code, data) ==
    [op |-> r.op, userId |-> r.userId, password |-> r.password,
     breachId |-> r.breachId, actionIndex |-> r.actionIndex,
     lookup |-> r.lookup, found |-> r.found, email |-> r.email, sms |-> r.sms,
     lookups |-> r.lookups, emailAttempts |-> r.emailAttempts,
     smsAttempts |-> r.smsAttempts,
     status |-> status, code |-> code, data |-> data]

\* catchAsync: a rejected handler promise goes to the error middleware.
ErrorResp(r) == Respond(r, "error", 500, [message |-> "error"])

\* The key of a record.
KeyOf(doc) == <<doc.userId, doc.passwordHash>>

Keys == {<<c[1], generateSHA1Hash(c[2])>> : c \in CheckRequests}

\* The derived fields of a document with these sources, as pre("save")
\* computes them.
Derived(breachSources) ==
    LET doc == preSave([breachSources |-> breachSources, riskLevel |-> "medium",
                        recommendedActions |-> <<>>], TRUE, {})
    IN  [breachSources |-> breachSources, riskLevel |-> doc.riskLevel,
         recommendedActions |-> doc.recommendedActions]

Init ==
    /\ store = <<>>
    /\ pc = [p \in Procs |-> "idle"]
    /\ req = [p \in Procs |-> IdleReq]
    /\ resp = Respond(IdleReq, None, 0, [message |-> None])
    /\ started = 0
    /\ serviceDef \in {1, 2}
    /\ findings = [k \in Keys |-> [count |-> 0, names |-> {}]]
    /\ emailsSent = [id \in 1..MaxRequests |-> 0]
    /\ fn = Derived(<<>>)

(***************************************************************************)
(* POST /api/breach/check : checkPasswordBreach                            *)
(***************************************************************************)
\* What the corpus exchange was: failed, or whether a line carries the
\* suffix of the password's digest.
LookupOutcome(password, response) ==
    IF ~response.ok THEN "failed"
    ELSE IF FindLine(response.lines, getHashPrefix(password).suffix) # 0
    THEN "match" ELSE "nomatch"

\* What the handler does with the service's result: it goes on to findOne
\* ("find"), or it ends with a response.
AfterLookup(r, breachResult) ==
    IF HasField(breachResult, "thrown") THEN [pc |-> "idle", resp |-> ErrorResp(r)]
    ELSE IF Truthy(breachResult, "isBreached") THEN [pc |-> "find", resp |-> ErrorResp(r)]
    ELSE IF ~HasField(breachResult, "details")
    THEN [pc |-> "idle", resp |-> ErrorResp(r)] \* TypeError reading lastChecked
    ELSE [pc |-> "idle",
          resp |-> Respond(r, "success", 200,
                     [message |-> "Password not found in breach databases",
                      breached |-> FALSE, count |-> 0,
                      source |-> breachResult.source])]

\* Mutant: the handler does not look at the validation result.
CheckPassword_NoValidation(p, userId, password, response) ==
    /\ pc[p] = "idle"
    /\ started < MaxRequests
    /\ started' = started + 1
    /\ LET r == [IdleReq EXCEPT !.op = "check", !.userId = userId,
                                !.password = password]
           breachResult == checkPasswordBreach(serviceDef, password, response)
           r2 == [r EXCEPT !.breachResult = breachResult,
                           !.lookups = @ + 1,
                           !.lookup = LookupOutcome(password, response)]
           next == AfterLookup(r2, breachResult)
       IN  IF next.pc = "idle"
           THEN /\ resp' = next.resp
                /\ UNCHANGED <<pc, req>>
           ELSE /\ req' = [req EXCEPT ![p] = r2]
                /\ pc' = [pc EXCEPT ![p] = next.pc]
                /\ UNCHANGED resp
    /\ UNCHANGED <<store, serviceDef, findings, emailsSent, fn>>

\* The request up to the handler's first access to the Breach collection:
\* validation, then breachService.checkPasswordBreach(password), whose corpus
\* exchange answers `response`.  Nothing shared is read or written before
\* the service call settles.
CheckPassword(p, userId, password, response) ==
    /\ pc[p] = "idle"
    /\ started < MaxRequests
    /\ started' = started + 1
    /\ LET r == [IdleReq EXCEPT !.op = "check", !.userId = userId,
                                !.password = password]
       IN  IF password = ""
           THEN /\ response = [ok |-> FALSE, lines |-> <<>>] \* none is made
                /\ resp' = Respond(r, "fail", 400, [message |-> "Validation errors"])
                /\ UNCHANGED <<pc, req>>
           ELSE LET breachResult == checkPasswordBreach(serviceDef, password, response)
                    r2 == [r EXCEPT !.breachResult = breachResult,
                                    !.lookups = @ + 1,
                                    !.lookup = LookupOutcome(password, response)]
                    next == AfterLookup(r2, breachResult)
                IN  IF next.pc = "idle"
                    THEN /\ resp' = next.resp
                         /\ UNCHANGED <<pc, req>>
                    ELSE /\ req' = [req EXCEPT ![p] = r2]
                         /\ pc' = [pc EXCEPT ![p] = next.pc]
                         /\ UNCHANGED resp
    /\ UNCHANGED <<store, serviceDef, findings, emailsSent, fn>>

\* Mutant: the source is pushed without looking for its name.
MergeFinding_AlwaysPush(doc, breachResult) ==
    [doc |-> [doc EXCEPT !.timesFound = @ + 1, !.lastChecked = "rechecked",
                         !.isActive = TRUE,
                         !.breachSources = Append(@, BreachSource(breachResult))],
     modified |-> {"timesFound", "lastChecked", "isActive", "breachSources"},
     pushed |-> <<BreachSource(breachResult)>>]

\* The merge of a finding into the document findOne returned.
MergeFinding(doc, breachResult) ==
    LET d == [doc EXCEPT !.timesFound = @ + 1, !.lastChecked = "rechecked",
                         !.isActive = TRUE]
        existingSource ==
            \E i \in 1..Len(doc.breachSources) :
                doc.breachSources[i].name = breachResult.source
    IN  IF existingSource
        THEN [doc |-> d, modified |-> {"timesFound", "lastChecked", "isActive"},
              pushed |-> <<>>]
        ELSE [doc |-> [d EXCEPT !.breachSources = Append(@, BreachSource(breachResult))],
              modified |-> {"timesFound", "lastChecked", "isActive", "breachSources"},
              pushed |-> <<BreachSource(breachResult)>>]

\* Breach.findOne({userId, passwordHash}) settles; the handler updates the
\* document it got, or builds a new one, and awaits save().
Find(p) ==
    /\ pc[p] = "find"
    /\ LET passwordHash == generateSHA1Hash(req[p].password)
           i == findOneByKey(store, req[p].userId, passwordHash)
       IN  IF i # 0
           THEN LET m == MergeFinding(store[i], req[p].breachResult)
                IN  req' = [req EXCEPT ![p].found = TRUE, ![p].doc = m.doc,
                                       ![p].isNew = FALSE,
                                       ![p].modified = m.modified,
                                       ![p].pushed = m.pushed]
           ELSE req' = [req EXCEPT ![p].found = FALSE,
                                   ![p].doc = NewBreach(req[p].userId, passwordHash,
                                                BreachSource(req[p].breachResult)),
                                   ![p].isNew = TRUE]
    /\ pc' = [pc EXCEPT ![p] = "save"]
    /\ UNCHANGED <<store, resp, started, serviceDef, findings, emailsSent, fn>>

\* existingBreach.save() / newBreach.save() settles; User.findById and the
\* sends are awaited next.
Save(p) ==
    /\ pc[p] = "save"
    /\ store' = save(store, req[p].doc, req[p].isNew, req[p].modified,
                     req[p].pushed, req[p].setCompleted)
    /\ req' = [req EXCEPT ![p].doc = savedDoc(store, req[p].doc, req[p].isNew,
                                              req[p].modified),
                          ![p].isNew = FALSE, ![p].modified = {},
                          ![p].pushed = <<>>]
    /\ pc' = [pc EXCEPT ![p] = "notify"]
    /\ findings' = [findings EXCEPT ![KeyOf(req[p].doc)] =
                        [count |-> @.count + 1,
                         names |-> @.names \cup {req[p].breachResult.source}]]
    /\ UNCHANGED <<resp, started, serviceDef, emailsSent, fn>>

\* The response of a detection.
BreachedResp(r) ==
    Respond(r, "success", 200,
        [message |-> "Password breach detected", breached |-> TRUE,
         count |-> r.breachResult.count, severity |-> r.breachResult.severity,
         source |-> r.breachResult.source,
         riskLevel |-> r.doc.riskLevel,
         recommendedActions |-> r.doc.recommendedActions,
         suggestMfa |-> r.doc.riskLevel \in {"critical", "high"},
         breachId |-> r.doc.id])

\* Mutant: an email send that threw is made once more.
sendNotifications_RetriesEmail(r, user, emailSent, smsOutcome) ==
    LET afterEmail ==
            IF user.notificationPreferences.email
            THEN IF emailSent
                 THEN [r EXCEPT !.email = "ok",
                                !.emailAttempts = @ + 1,
                                !.doc.notificationsSent = @ + 1,
                                !.modified = @ \cup {"notificationsSent"}]
                 ELSE [r EXCEPT !.email = "failed", !.emailAttempts = @ + 2]
            ELSE r
    IN  IF afterEmail.email = "failed" THEN afterEmail
        ELSE IF user.notificationPreferences.sms /\ user.phone
             THEN [afterEmail EXCEPT !.sms = smsOutcome, !.smsAttempts = @ + 1]
             ELSE afterEmail

\* The handler's locals after the sends of the try block: the email send if
\* the preference is set, then the SMS send if the preference is set and the
\* user has a phone.  A send that throws leaves the block.  emailSent: the
\* email send resolves; smsOutcome: sendSMS resolves true ("ok") or false
\* ("false"), or throws ("failed").
sendNotifications(r, user, emailSent, smsOutcome) ==
    LET afterEmail ==
            IF user.notificationPreferences.email
            THEN IF emailSent
                 THEN [r EXCEPT !.email = "ok",
                                !.emailAttempts = @ + 1,
                                !.doc.notificationsSent = @ + 1,
                                !.modified = @ \cup {"notificationsSent"}]
                 ELSE [r EXCEPT !.email = "failed", !.emailAttempts = @ + 1]
            ELSE r
    IN  IF afterEmail.email = "failed" THEN afterEmail
        ELSE IF user.notificationPreferences.sms /\ user.phone
             THEN [afterEmail EXCEPT !.sms = smsOutcome, !.smsAttempts = @ + 1]
             ELSE afterEmail

\* Mutant: a send that threw is not caught; the handler rejects.
Notify_FailureEscalates(p, emailSent, smsOutcome) ==
    /\ pc[p] = "notify"
    /\ LET user == findUserById(req[p].userId)
           r == sendNotifications(req[p], user, emailSent, smsOutcome)
       IN  /\ user.notificationPreferences.email \/ emailSent
           /\ r.sms # None \/ smsOutcome = "ok"
           /\ IF r.email = "failed" \/ r.sms = "failed"
              THEN /\ req' = [req EXCEPT ![p] = IdleReq]
                   /\ pc' = [pc EXCEPT ![p] = "idle"]
                   /\ resp' = ErrorResp(r)
              ELSE /\ req' = [req EXCEPT ![p] = r]
                   /\ pc' = [pc EXCEPT ![p] = "save2"]
                   /\ UNCHANGED resp
           /\ emailsSent' = IF r.email = "ok"
                            THEN [emailsSent EXCEPT ![r.doc.id] = @ + 1]
                            ELSE emailsSent
    /\ UNCHANGED <<store, started, serviceDef, findings, fn>>

\* The sends settle.  When one threw, the catch logs and the response
\* follows; otherwise the second save() is awaited.
Notify(p, emailSent, smsOutcome) ==
    /\ pc[p] = "notify"
    /\ LET user == findUserById(req[p].userId)
           r == sendNotifications(req[p], user, emailSent, smsOutcome)
       IN  \* an outcome is drawn only for a send that is made
           /\ user.notificationPreferences.email \/ emailSent
           /\ r.sms # None \/ smsOutcome = "ok"
           /\ IF r.email = "failed" \/ r.sms = "failed"
              THEN /\ req' = [req EXCEPT ![p] = IdleReq]
                   /\ pc' = [pc EXCEPT ![p] = "idle"]
                   /\ resp' = BreachedResp(r)
              ELSE /\ req' = [req EXCEPT ![p] = r]
                   /\ pc' = [pc EXCEPT ![p] = "save2"]
                   /\ UNCHANGED resp
           /\ emailsSent' = IF r.email = "ok"
                            THEN [emailsSent EXCEPT ![r.doc.id] = @ + 1]
                            ELSE emailsSent
    /\ UNCHANGED <<store, started, serviceDef, findings, fn>>

\* The second existingBreach.save() settles and the response is sent.
Save2(p) ==
    /\ pc[p] = "save2"
    /\ store' = save(store, req[p].doc, FALSE, req[p].modified,
                     req[p].pushed, req[p].setCompleted)
    /\ req' = [req EXCEPT ![p] = IdleReq]
    /\ pc' = [pc EXCEPT ![p] = "idle"]
    /\ resp' = BreachedResp(req[p])
    /\ UNCHANGED <<started, serviceDef, findings, emailsSent, fn>>

\* Mutant: acknowledgeBreach sets the flag without the timestamp.
Acknowledge_NoTimestamp(p, userId, breachId) ==
    /\ pc[p] = "idle"
    /\ started < MaxRequests
    /\ started' = started + 1
    /\ LET i == findOneById(store, breachId, userId)
           r == [IdleReq EXCEPT !.op = "ack", !.userId = userId,
                                !.breachId = breachId]
       IN  IF i = 0
           THEN /\ resp' = Respond(r, "fail", 404, [message |-> "Breach not found"])
                /\ UNCHANGED <<pc, req>>
           ELSE /\ req' = [req EXCEPT ![p] =
                            [r EXCEPT !.found = TRUE,
                                      !.doc = [store[i] EXCEPT
                                                 !.userAcknowledged = TRUE],
                                      !.modified = {"userAcknowledged"}]]
                /\ pc' = [pc EXCEPT ![p] = "ackSave"]
                /\ UNCHANGED resp
    /\ UNCHANGED <<store, serviceDef, findings, emailsSent, fn>>

(***************************************************************************)
(* PUT /api/breach/:breachId/acknowledge : acknowledgeBreach               *)
(***************************************************************************)
\* Request received and findOne settles: 404, or the document is changed
\* and save() is awaited.
Acknowledge(p, userId, breachId) ==
    /\ pc[p] = "idle"
    /\ started < MaxRequests
    /\ started' = started + 1
    /\ LET i == findOneById(store, breachId, userId)
           r == [IdleReq EXCEPT !.op = "ack", !.userId = userId,
                                !.breachId = breachId]
       IN  IF i = 0
           THEN /\ resp' = Respond(r, "fail", 404, [message |-> "Breach not found"])
                /\ UNCHANGED <<pc, req>>
           ELSE /\ req' = [req EXCEPT ![p] =
                            [r EXCEPT !.found = TRUE,
                                      !.doc = [store[i] EXCEPT
                                                 !.userAcknowledged = TRUE,
                                                 !.acknowledgedAt = "set"],
                                      !.modified = {"userAcknowledged",
                                                    "acknowledgedAt"}]]
                /\ pc' = [pc EXCEPT ![p] = "ackSave"]
                /\ UNCHANGED resp
    /\ UNCHANGED <<store, serviceDef, findings, emailsSent, fn>>

AcknowledgeSave(p) ==
    /\ pc[p] = "ackSave"
    /\ store' = save(store, req[p].doc, FALSE, req[p].modified,
                     req[p].pushed, req[p].setCompleted)
    /\ req' = [req EXCEPT ![p] = IdleReq]
    /\ pc' = [pc EXCEPT ![p] = "idle"]
    /\ resp' = Respond(req[p], "success", 200,
                    [message |-> "Breach acknowledged successfully",
                     breachId |-> req[p].doc.id])
    /\ UNCHANGED <<started, serviceDef, findings, emailsSent, fn>>

(***************************************************************************)
(* POST /api/breach/:breachId/action : markActionCompleted                 *)
(***************************************************************************)
\* Mutant: the index check lets actionIndex = length through.
MarkActionCompleted_OffByOne(p, userId, breachId, actionIndex) ==
    /\ pc[p] = "idle"
    /\ started < MaxRequests
    /\ started' = started + 1
    /\ LET i == findOneById(store, breachId, userId)
           r == [IdleReq EXCEPT !.op = "action", !.userId = userId,
                                !.breachId = breachId,
                                !.actionIndex = actionIndex]
       IN  IF i = 0
           THEN /\ resp' = Respond(r, "fail", 404, [message |-> "Breach not found"])
                /\ UNCHANGED <<pc, req>>
           ELSE IF actionIndex < 0 \/ actionIndex > Len(store[i].recommendedActions)
           THEN /\ resp' = Respond([r EXCEPT !.found = TRUE], "fail", 400,
                                   [message |-> "Invalid action index"])
                /\ UNCHANGED <<pc, req>>
           ELSE /\ req' = [req EXCEPT ![p] =
                            [r EXCEPT !.found = TRUE,
                                      !.doc = [store[i] EXCEPT
                                        !.recommendedActions[actionIndex + 1].completed = TRUE],
                                      !.setCompleted = {actionIndex + 1}]]
                /\ pc' = [pc EXCEPT ![p] = "actionSave"]
                /\ UNCHANGED resp
    /\ UNCHANGED <<store, serviceDef, findings, emailsSent, fn>>

\* Request received and findOne settles: 404, 400 for an index out of
\* range, or the action is marked and save() is awaited.  actionIndex is
\* 0-based; sequences here are 1-based.
MarkActionCompleted(p, userId, breachId, actionIndex) ==
    /\ pc[p] = "idle"
    /\ started < MaxRequests
    /\ started' = started + 1
    /\ LET i == findOneById(store, breachId, userId)
           r == [IdleReq EXCEPT !.op = "action", !.userId = userId,
                                !.breachId = breachId,
                                !.actionIndex = actionIndex]
       IN  IF i = 0
           THEN /\ resp' = Respond(r, "fail", 404, [message |-> "Breach not found"])
                /\ UNCHANGED <<pc, req>>
           ELSE IF actionIndex < 0 \/ actionIndex >= Len(store[i].recommendedActions)
           THEN /\ resp' = Respond([r EXCEPT !.found = TRUE], "fail", 400,
                                   [message |-> "Invalid action index"])
                /\ UNCHANGED <<pc, req>>
           ELSE /\ req' = [req EXCEPT ![p] =
                            [r EXCEPT !.found = TRUE,
                                      !.doc = [store[i] EXCEPT
                                        !.recommendedActions[actionIndex + 1].completed = TRUE],
                                      !.setCompleted = {actionIndex + 1}]]
                /\ pc' = [pc EXCEPT ![p] = "actionSave"]
                /\ UNCHANGED resp
    /\ UNCHANGED <<store, serviceDef, findings, emailsSent, fn>>

MarkActionCompletedSave(p) ==
    /\ pc[p] = "actionSave"
    /\ store' = save(store, req[p].doc, FALSE, req[p].modified,
                     req[p].pushed, req[p].setCompleted)
    /\ req' = [req EXCEPT ![p] = IdleReq]
    /\ pc' = [pc EXCEPT ![p] = "idle"]
    /\ resp' = Respond(req[p], "success", 200,
                    [message |-> "Action marked as completed",
                     breachId |-> req[p].doc.id])
    /\ UNCHANGED <<started, serviceDef, findings, emailsSent, fn>>

(***************************************************************************)
(* PUT /api/notifications/:notificationId/read : markNotificationAsRead    *)
(* PUT /api/notifications/mark-all-read : markAllNotificationsAsRead       *)
(***************************************************************************)
\* Request received and findOne settles: 404, or the breach is marked
\* acknowledged and save() is awaited.
MarkNotificationAsRead(p, userId, notificationId) ==
    /\ pc[p] = "idle"
    /\ started < MaxRequests
    /\ started' = started + 1
    /\ LET i == findOneById(store, notificationId, userId)
           r == [IdleReq EXCEPT !.op = "read", !.userId = userId,
                                !.breachId = notificationId]
       IN  IF i = 0
           THEN /\ resp' = Respond(r, "fail", 404,
                                   [message |-> "Notification not found"])
                /\ UNCHANGED <<pc, req>>
           ELSE /\ req' = [req EXCEPT ![p] =
                            [r EXCEPT !.found = TRUE,
                                      !.doc = [store[i] EXCEPT
                                                 !.userAcknowledged = TRUE,
                                                 !.acknowledgedAt = "set"],
                                      !.modified = {"userAcknowledged",
                                                    "acknowledgedAt"}]]
                /\ pc' = [pc EXCEPT ![p] = "readSave"]
                /\ UNCHANGED resp
    /\ UNCHANGED <<store, serviceDef, findings, emailsSent, fn>>

MarkNotificationAsReadSave(p) ==
    /\ pc[p] = "readSave"
    /\ store' = save(store, req[p].doc, FALSE, req[p].modified,
                     req[p].pushed, req[p].setCompleted)
    /\ req' = [req EXCEPT ![p] = IdleReq]
    /\ pc' = [pc EXCEPT ![p] = "idle"]
    /\ resp' = Respond(req[p], "success", 200,
                    [message |-> "Notification marked as read"])
    /\ UNCHANGED <<started, serviceDef, findings, emailsSent, fn>>

\* Mutant: the user's records are removed instead of updated.
MarkAllNotificationsAsRead_Deletes(p, userId) ==
    /\ pc[p] = "idle"
    /\ started < MaxRequests
    /\ started' = started + 1
    /\ LET kept(d) == d.userId # userId
       IN  store' = SelectSeq(store, kept)
    /\ resp' = Respond([IdleReq EXCEPT !.op = "readAll", !.userId = userId],
                       "success", 200,
                       [message |-> "All notifications marked as read"])
    /\ UNCHANGED <<pc, req, serviceDef, findings, emailsSent, fn>>

\* Mutant: the filter of updateMany has no userId.
MarkAllNotificationsAsRead_AllUsers(p, userId) ==
    /\ pc[p] = "idle"
    /\ started < MaxRequests
    /\ started' = started + 1
    /\ store' = [i \in 1..Len(store) |->
                    IF ~store[i].userAcknowledged
                    THEN [store[i] EXCEPT !.userAcknowledged = TRUE,
                                          !.acknowledgedAt = "set"]
                    ELSE store[i]]
    /\ resp' = Respond([IdleReq EXCEPT !.op = "readAll", !.userId = userId],
                       "success", 200,
                       [message |-> "All notifications marked as read"])
    /\ UNCHANGED <<pc, req, serviceDef, findings, emailsSent, fn>>

\* Breach.updateMany({userId, userAcknowledged: false}, {...}): one write
\* of the collection, then the response.
MarkAllNotificationsAsRead(p, userId) ==
    /\ pc[p] = "idle"
    /\ started < MaxRequests
    /\ started' = started + 1
    /\ store' = [i \in 1..Len(store) |->
                    IF store[i].userId = userId /\ ~store[i].userAcknowledged
                    THEN [store[i] EXCEPT !.userAcknowledged = TRUE,
                                          !.acknowledgedAt = "set"]
                    ELSE store[i]]
    /\ resp' = Respond([IdleReq EXCEPT !.op = "readAll", !.userId = userId],
                       "success", 200,
                       [message |-> "All notifications marked as read"])
    /\ UNCHANGED <<pc, req, serviceDef, findings, emailsSent, fn>>

(***************************************************************************)
(* The handlers that only read the collection                              *)
(***************************************************************************)
\* A request that is answered without a write.
Answer(p, r, status, code, data) ==
    /\ pc[p] = "idle"
    /\ started < MaxRequests
    /\ started' = started + 1
    /\ resp' = Respond(r, status, code, data)
    /\ UNCHANGED <<store, pc, req, serviceDef, findings, emailsSent, fn>>

\* Mutant: the aggregate has no $match stage.
getUserBreachStats_NoMatch(st, userId) ==
    LET matched == 1..Len(st)
        Sum(cond(_)) == Cardinality({i \in matched : cond(st[i])})
        isActive(doc) == doc.isActive
        userAcknowledged(doc) == doc.userAcknowledged
        critical(doc) == doc.riskLevel = "critical"
        high(doc) == doc.riskLevel = "high"
        medium(doc) == doc.riskLevel = "medium"
        low(doc) == doc.riskLevel = "low"
    IN  IF matched = {}
        THEN [totalBreaches |-> 0, activeBreaches |-> 0,
              acknowledgedBreaches |-> 0, criticalBreaches |-> 0,
              highBreaches |-> 0, mediumBreaches |-> 0, lowBreaches |-> 0]
        ELSE [totalBreaches |-> Cardinality(matched),
              activeBreaches |-> Sum(isActive),
              acknowledgedBreaches |-> Sum(userAcknowledged),
              criticalBreaches |-> Sum(critical),
              highBreaches |-> Sum(high),
              mediumBreaches |-> Sum(medium),
              lowBreaches |-> Sum(low)]

\* breachService.getUserBreachStats: Breach.aggregate of $match {userId}
\* and one $group of conditional sums; the zero record when the group is
\* empty.
getUserBreachStats(st, userId) ==
    LET matched == {i \in 1..Len(st) : st[i].userId = userId}
        Sum(cond(_)) == Cardinality({i \in matched : cond(st[i])})
        isActive(doc) == doc.isActive
        userAcknowledged(doc) == doc.userAcknowledged
        critical(doc) == doc.riskLevel = "critical"
        high(doc) == doc.riskLevel = "high"
        medium(doc) == doc.riskLevel = "medium"
        low(doc) == doc.riskLevel = "low"
    IN  IF matched = {}
        THEN [totalBreaches |-> 0, activeBreaches |-> 0,
              acknowledgedBreaches |-> 0, criticalBreaches |-> 0,
              highBreaches |-> 0, mediumBreaches |-> 0, lowBreaches |-> 0]
        ELSE [totalBreaches |-> Cardinality(matched),
              activeBreaches |-> Sum(isActive),
              acknowledgedBreaches |-> Sum(userAcknowledged),
              criticalBreaches |-> Sum(critical),
              highBreaches |-> Sum(high),
              mediumBreaches |-> Sum(medium),
              lowBreaches |-> Sum(low)]

\* breachService.getGlobalBreachStats: one $group over the whole collection
\* (the average of timesFound and the sum of notificationsSent are left
\* out of the model).
getGlobalBreachStats(st) ==
    [totalBreaches |-> Len(st),
     activeBreaches |-> Cardinality({i \in 1..Len(st) : st[i].isActive}),
     uniqueUsers |-> Cardinality({st[i].userId : i \in 1..Len(st)})]

\* GET /api/breach/history: Breach.find({userId}), then the statistics of
\* getUserBreachStats(userId).
GetBreachHistory(p, userId) ==
    Answer(p, [IdleReq EXCEPT !.op = "history", !.userId = userId],
           "success", 200,
           [breaches |-> {i \in 1..Len(store) : store[i].userId = userId},
            statistics |-> getUserBreachStats(store, userId)])

\* GET /api/breach/:breachId: Breach.findOne({_id: breachId, userId}).
GetBreachById(p, userId, breachId) ==
    LET i == findOneById(store, breachId, userId)
        r == [IdleReq EXCEPT !.op = "get", !.userId = userId,
                             !.breachId = breachId, !.found = (i # 0)]
    IN  IF i = 0
        THEN Answer(p, r, "fail", 404, [message |-> "Breach not found"])
        ELSE Answer(p, r, "success", 200, [breach |-> i])

\* GET /api/breach/search: Breach.find({userId, ...}) with the
\* userAcknowledged condition when the acknowledged parameter is given.
SearchBreaches(p, userId, acknowledged) ==
    Answer(p, [IdleReq EXCEPT !.op = "search", !.userId = userId],
           "success", 200,
           [breaches |->
                {i \in 1..Len(store) :
                    /\ store[i].userId = userId
                    /\ acknowledged # None =>
                            store[i].userAcknowledged = (acknowledged = "true")}])

\* GET /api/notifications: Breach.find({userId, isActive: true}), each
\* breach turned into a notification with its id.
GetNotifications(p, userId) ==
    Answer(p, [IdleReq EXCEPT !.op = "notifications", !.userId = userId],
           "success", 200,
           [breaches |-> {i \in 1..Len(store) :
                            store[i].userId = userId /\ store[i].isActive}])

\* GET /api/breach/admin/stats: 403 unless the caller is an admin, else the
\* aggregate over the whole collection.
GetGlobalBreachStats(p, role) ==
    LET r == [IdleReq EXCEPT !.op = "stats", !.userId = role]
    IN  IF role # "admin"
        THEN Answer(p, r, "fail", 403, [message |-> "Admin access required"])
        ELSE Answer(p, r, "success", 200, getGlobalBreachStats(store))

Next ==
    \E p \in Procs :
        \/ \E c \in CheckRequests, response \in Responses :
                CheckPassword(p, c[1], c[2], response)
        \/ Find(p)
        \/ Save(p)
        \/ \E emailSent \in BOOLEAN, smsOutcome \in {"ok", "false", "failed"} :
                Notify(p, emailSent, smsOutcome)
        \/ Save2(p)
        \/ \E a \in AcknowledgeRequests : Acknowledge(p, a[1], a[2])
        \/ AcknowledgeSave(p)
        \/ \E a \in ActionRequests : MarkActionCompleted(p, a[1], a[2], a[3])
        \/ MarkActionCompletedSave(p)
        \/ \E a \in MarkReadRequests : MarkNotificationAsRead(p, a[1], a[2])
        \/ MarkNotificationAsReadSave(p)
        \/ \E userId \in MarkAllRequests : MarkAllNotificationsAsRead(p, userId)
        \/ \E userId \in HistoryRequests : GetBreachHistory(p, userId)
        \/ \E a \in GetByIdRequests : GetBreachById(p, a[1], a[2])
        \/ \E a \in SearchRequests : SearchBreaches(p, a[1], a[2])
        \/ \E userId \in NotificationsRequests : GetNotifications(p, userId)
        \/ \E role \in Roles : GetGlobalBreachStats(p, role)

Spec == Init /\ [][Next]_vars

(***************************************************************************)
(* The derived fields as pure functions of the sources: a document's       *)
(* source list grows by one source of any severity and is saved.           *)
(***************************************************************************)
Severities == {"low", "medium", "high", "critical"}

\* Bound: the number of sources of a document.
MaxSources == 4

PushSource(severity) ==
    /\ Len(fn.breachSources) < MaxSources
    /\ fn' = Derived(Append(fn.breachSources,
                    [name |-> "HaveIBeenPwned", severity |-> severity,
                     affectedAccounts |-> 0]))
    /\ UNCHANGED <<store, pc, req, resp, started, serviceDef, findings, emailsSent>>

DerivedInit ==
    /\ store = <<>>
    /\ pc = [p \in Procs |-> "idle"]
    /\ req = [p \in Procs |-> IdleReq]
    /\ resp = Respond(IdleReq, None, 0, [message |-> None])
    /\ started = 0
    /\ serviceDef = 1
    /\ findings = [k \in Keys |-> [count |-> 0, names |-> {}]]
    /\ emailsSent = [id \in 1..MaxRequests |-> 0]
    /\ fn = Derived(<<>>)

DerivedNext == \E severity \in Severities : PushSource(severity)

DerivedSpec == DerivedInit /\ [][DerivedNext]_vars

(***************************************************************************)
(* calculateSeverity as a pure function: two occurrence counts are drawn,  *)
(* at and around the thresholds, and classified.                           *)
(***************************************************************************)
SeverityCounts ==
    {-1, 0, 1, 999, 1000, 1001, 9999, 10000, 10001, 99999, 100000, 100001}

SeverityInit ==
    /\ store = <<>>
    /\ pc = [p \in Procs |-> "idle"]
    /\ req = [p \in Procs |-> IdleReq]
    /\ resp = Respond(IdleReq, None, 0, [message |-> None])
    /\ started = 0
    /\ serviceDef = 1
    /\ findings = [k \in Keys |-> [count |-> 0, names |-> {}]]
    /\ emailsSent = [id \in 1..MaxRequests |-> 0]
    /\ \E c1, c2 \in SeverityCounts :
            fn = [c1 |-> c1, c2 |-> c2, s1 |-> None, s2 |-> None]

Classify ==
    /\ fn.s1 = None
    /\ fn' = [fn EXCEPT !.s1 = calculateSeverity(fn.c1),
                        !.s2 = calculateSeverity(fn.c2)]
    /\ UNCHANGED <<store, pc, req, resp, started, serviceDef, findings, emailsSent>>

SeverityNext == Classify

SeveritySpec == SeverityInit /\ [][SeverityNext]_vars

(***************************************************************************)
(* The digest split and the lookup request as pure functions: two          *)
(* passwords are drawn, split, and the request for each is built.          *)
(***************************************************************************)
\* The passwords drawn; pw2001/pw2501 and pw212/pw3684 are pairs whose
\* digests share the first five characters.
HashPasswords ==
    {"", "password123", "hunter2", "testpassword", "anypassword", "a",
     "pw2001", "pw2501", "pw212", "pw3684"}

NoSplit == [prefix |-> "", suffix |-> ""]

NoRequest == [url |-> ""]

HashInit ==
    /\ store = <<>>
    /\ pc = [p \in Procs |-> "idle"]
    /\ req = [p \in Procs |-> IdleReq]
    /\ resp = Respond(IdleReq, None, 0, [message |-> None])
    /\ started = 0
    /\ serviceDef \in {1, 2}
    /\ findings = [k \in Keys |-> [count |-> 0, names |-> {}]]
    /\ emailsSent = [id \in 1..MaxRequests |-> 0]
    /\ \E p1, p2 \in HashPasswords, hibpApiKey \in {None, "key"} :
            fn = [stage |-> "drawn", p1 |-> p1, p2 |-> p2,
                  hibpApiKey |-> hibpApiKey,
                  h1 |-> NoSplit, h2 |-> NoSplit,
                  r1 |-> NoRequest, r2 |-> NoRequest]

SplitDigest ==
    /\ fn.stage = "drawn"
    /\ fn' = [fn EXCEPT !.stage = "split",
                        !.h1 = getHashPrefix(fn.p1),
                        !.h2 = getHashPrefix(fn.p2)]
    /\ UNCHANGED <<store, pc, req, resp, started, serviceDef, findings, emailsSent>>

\* The request checkPasswordBreach sends for each password.
SendLookup ==
    /\ fn.stage = "split"
    /\ fn' = [fn EXCEPT !.stage = "requested",
                        !.r1 = lookupRequest(serviceDef, fn.p1, fn.hibpApiKey),
                        !.r2 = lookupRequest(serviceDef, fn.p2, fn.hibpApiKey)]
    /\ UNCHANGED <<store, pc, req, resp, started, serviceDef, findings, emailsSent>>

HashNext == SplitDigest \/ SendLookup

HashSpec == HashInit /\ [][HashNext]_vars

(***************************************************************************)
(* The lookup client on its own: one checkPasswordBreach call, or the loop *)
(* of checkMultiplePasswords over a list of passwords.                     *)
(***************************************************************************)
\* The arguments of the call: one password for checkPasswordBreach, a list
\* for checkMultiplePasswords.
LookupInit ==
    /\ store = <<>>
    /\ pc = [p \in Procs |-> "idle"]
    /\ req = [p \in Procs |-> IdleReq]
    /\ resp = Respond(IdleReq, None, 0, [message |-> None])
    /\ started = 0
    /\ serviceDef \in {1, 2}
    /\ findings = [k \in Keys |-> [count |-> 0, names |-> {}]]
    /\ emailsSent = [id \in 1..MaxRequests |-> 0]
    /\ \E p1, p2 \in LookupPasswords :
         \E call \in {[mode |-> "single", passwords |-> <<p1>>],
                      [mode |-> "batch", passwords |-> <<>>],
                      [mode |-> "batch", passwords |-> <<p1>>],
                      [mode |-> "batch", passwords |-> <<p1, p2>>]} :
            fn = [mode |-> call.mode, passwords |-> call.passwords,
                  i |-> 1, awaiting |-> FALSE,
                  requests |-> <<>>, responses |-> <<>>, results |-> <<>>]

\* axios.get of the call for the current password is issued.
IssueLookup ==
    /\ ~fn.awaiting
    /\ fn.i <= Len(fn.passwords)
    /\ fn' = [fn EXCEPT !.awaiting = TRUE,
                        !.requests = Append(@, lookupRequest(serviceDef,
                                                    fn.passwords[fn.i], None))]
    /\ UNCHANGED <<store, pc, req, resp, started, serviceDef, findings, emailsSent>>

\* The entry checkMultiplePasswords pushes for a password: the result of
\* the check, or the entry of its catch block.
BatchEntry(result) ==
    IF result = Thrown
    THEN [isBreached |-> FALSE, error |-> "Failed to check password breach",
          source |-> "HaveIBeenPwned"]
    ELSE result

\* The exchange ends: checkPasswordBreach returns or throws, and the loop of
\* checkMultiplePasswords pushes an entry and moves to the next password.
ReceiveLookup(response) ==
    /\ fn.awaiting
    /\ LET result == checkPasswordBreach(serviceDef, fn.passwords[fn.i], response)
       IN  fn' = [fn EXCEPT !.awaiting = FALSE,
                            !.i = @ + 1,
                            !.responses = Append(@, response),
                            !.results = Append(@, IF fn.mode = "batch"
                                                  THEN BatchEntry(result)
                                                  ELSE result)]
    /\ UNCHANGED <<store, pc, req, resp, started, serviceDef, findings, emailsSent>>

LookupNext == IssueLookup \/ \E response \in LookupResponses : ReceiveLookup(response)

LookupSpec == LookupInit /\ [][LookupNext]_vars

(***************************************************************************)
(* The handlers on a collection that holds a record written with the model *)
(* by another writer, as the fixtures of the test suites write them: its   *)
(* sources do not carry the name the lookup client reports.                *)
(***************************************************************************)
SeedSource(name, severity) ==
    [name |-> name, severity |-> severity, affectedAccounts |-> 0]

\* breachSources of the record the collection starts with.
SeedSources ==
    {<<SeedSource("TestBreach1", "low")>>,
     <<SeedSource("TestBreach1", "medium")>>,
     <<SeedSource("TestBreach1", "medium"), SeedSource("TestBreach2", "medium")>>}

\* new Breach({userId, passwordHash, breachSources}).save() on the empty
\* collection: record 1, owned by u2 for the digest of password123.
SeedStore(breachSources) ==
    save(<<>>,
         [NewBreach("u2", generateSHA1Hash("password123"), breachSources[1])
            EXCEPT !.breachSources = breachSources],
         TRUE, {}, <<>>, {})

SeedInit ==
    /\ \E breachSources \in SeedSources : store = SeedStore(breachSources)
    /\ pc = [p \in Procs |-> "idle"]
    /\ req = [p \in Procs |-> IdleReq]
    /\ resp = Respond(IdleReq, None, 0, [message |-> None])
    /\ started = 0
    /\ serviceDef \in {1, 2}
    /\ findings = [k \in Keys |-> [count |-> 0, names |-> {}]]
    /\ emailsSent = [id \in 1..MaxRequests |-> 0]
    /\ fn = Derived(<<>>)

\* The requests of the owner of the record: checks of the password, and
\* action requests <<userId, breachId, actionIndex>>.
SeedActionRequests == {<<"u2", 1, 0>>, <<"u2", 1, 1>>}

SeedNext ==
    \E p \in Procs :
        \/ \E response \in Responses : CheckPassword(p, "u2", "password123", response)
        \/ Find(p)
        \/ Save(p)
        \/ \E emailSent \in BOOLEAN, smsOutcome \in {"ok", "false", "failed"} :
                Notify(p, emailSent, smsOutcome)
        \/ Save2(p)
        \/ \E a \in SeedActionRequests : MarkActionCompleted(p, a[1], a[2], a[3])
        \/ MarkActionCompletedSave(p)

SeedSpec == SeedInit /\ [][SeedNext]_vars

(***************************************************************************)
(* scripts/sendAlerts: the batch job, run again and again by its           *)
(* scheduler, for one verified user with the email preference set.         *)
(* The Breach schema declares neither status nor notificationSent; whether *)
(* the library drops such a path from a filter (strictQuery) and from an   *)
(* update (strict) depends on the library version and options the job runs *)
(* with, so both are chosen in the initial state.                          *)
(***************************************************************************)
\* Bound: the number of breaches of the user.
MaxBreaches == 2

AlertsInit ==
    /\ store = <<>>
    /\ pc = [p \in Procs |-> "idle"]
    /\ req = [p \in Procs |-> IdleReq]
    /\ resp = Respond(IdleReq, None, 0, [message |-> None])
    /\ started = 0
    /\ serviceDef = 1
    /\ findings = [k \in Keys |-> [count |-> 0, names |-> {}]]
    /\ emailsSent = [id \in 1..MaxRequests |-> 0]
    /\ \E strictQuery, strict, sms \in BOOLEAN :
            fn = [strictQuery |-> strictQuery, strict |-> strict,
                  sms |-> sms,           \* notificationPreferences.sms && phone
                  exists |-> {},         \* the breaches of the user
                  notificationSent |-> {},
                  stage |-> "idle",
                  found |-> {},          \* unacknowledgedBreaches of this run
                  succeeded |-> FALSE,   \* a send of this run was delivered
                  delivered |-> {}]      \* breaches alerted by a delivered send

\* The API records a breach of the user while the job is not running.
RecordBreach ==
    /\ fn.stage = "idle"
    /\ Cardinality(fn.exists) < MaxBreaches
    /\ fn' = [fn EXCEPT !.exists = @ \cup {Cardinality(fn.exists) + 1}]
    /\ UNCHANGED <<store, pc, req, resp, started, serviceDef, findings, emailsSent>>

\* No stored document has a status: the schema has no such path.
StatusOf(b) == None

\* Breach.find({userId, status: "unacknowledged", notificationSent: {$ne:
\* true}}): with strictQuery the two undeclared paths are dropped from the
\* filter.  With no breach found the loop continues with the next user.
FindBreaches ==
    /\ fn.stage = "idle"
    /\ LET unacknowledgedBreaches ==
            IF fn.strictQuery THEN fn.exists
            ELSE {b \in fn.exists :
                    StatusOf(b) = "unacknowledged" /\ b \notin fn.notificationSent}
       IN  fn' = [fn EXCEPT !.found = unacknowledgedBreaches,
                            !.succeeded = FALSE,
                            !.stage = IF unacknowledgedBreaches = {}
                                      THEN "idle" ELSE "found"]
    /\ UNCHANGED <<store, pc, req, resp, started, serviceDef, findings, emailsSent>>

\* emailService.sendBreachAlert(...): the email service has no such method,
\* the call throws a TypeError and the catch counts an error.
SendEmail ==
    /\ fn.stage = "found"
    /\ fn' = [fn EXCEPT !.stage = "emailed"]
    /\ UNCHANGED <<store, pc, req, resp, started, serviceDef, findings, emailsSent>>

\* smsService.sendSMS(user.phone, ...) when the user has the preference and
\* a phone: it resolves true ("ok"), resolves false ("false", counted as
\* sent by the job) or throws ("failed", caught).
SendSms(smsOutcome) ==
    /\ fn.stage = "emailed"
    /\ fn.sms \/ smsOutcome = "failed"
    /\ LET ok == fn.sms /\ smsOutcome = "ok"
       IN  fn' = [fn EXCEPT !.stage = "smsed",
                            !.succeeded = ok,
                            !.delivered = IF ok THEN @ \cup fn.found ELSE @]
    /\ UNCHANGED <<store, pc, req, resp, started, serviceDef, findings, emailsSent>>

\* Breach.updateMany({_id: {$in: ...}}, {$set: {notificationSent: true,
\* notificationSentDate}}) after the two try blocks, whatever the sends did;
\* with strict the undeclared paths are dropped from the update.
MarkSent ==
    /\ fn.stage = "smsed"
    /\ fn' = [fn EXCEPT !.stage = "idle",
                        !.notificationSent =
                            IF fn.strict THEN @ ELSE @ \cup fn.found]
    /\ UNCHANGED <<store, pc, req, resp, started, serviceDef, findings, emailsSent>>

AlertsNext ==
    \/ RecordBreach
    \/ FindBreaches
    \/ SendEmail
    \/ \E smsOutcome \in {"ok", "false", "failed"} : SendSms(smsOutcome)
    \/ MarkSent

\* The job is run again and again, each of its steps is taken, and an SMS
\* send that is attempted again and again is delivered at some attempt.
AlertsSpec ==
    /\ AlertsInit
    /\ [][AlertsNext]_vars
    /\ WF_vars(FindBreaches)
    /\ WF_vars(SendEmail)
    /\ WF_vars(\E smsOutcome \in {"ok", "false", "failed"} : SendSms(smsOutcome))
    /\ SF_vars(SendSms("ok"))
    /\ WF_vars(MarkSent)

(***************************************************************************)
(* Properties                                                              *)
(***************************************************************************)
RecordsOf(key) == {i \in 1..Len(store) : KeyOf(store[i]) = key}

SourceNames(doc) == {doc.breachSources[i].name : i \in 1..Len(doc.breachSources)}

Quiescent == \A p \in Procs : pc[p] = "idle"

\* C1: in every reachable state there is at most one BreachRecord per
\* (userId, passwordHash) key, also when checks of the same key interleave
\* between findOne and save.
C1_OneRecordPerKey ==
    \A i, j \in 1..Len(store) : KeyOf(store[i]) = KeyOf(store[j]) => i = j

C3_TimesFoundCountsDetections ==
    \A i \in 1..Len(store) :
        store[i].timesFound = findings[KeyOf(store[i])].count

\* C4: the sources of a record have pairwise distinct names, all of them
\* names recorded for its key: a finding whose source name the record
\* already has adds no entry, while timesFound still grows.
C4_DistinctSourceNames ==
    \A i \in 1..Len(store) :
        /\ \A a, b \in 1..Len(store[i].breachSources) :
                store[i].breachSources[a].name = store[i].breachSources[b].name
                    => a = b
        /\ SourceNames(store[i]) \subseteq findings[KeyOf(store[i])].names

\* A record created by one finding and merged with two more of the same
\* source: one entry, timesFound grown by 2.
C4_Witness ==
    \E i \in 1..Len(store) :
        /\ findings[KeyOf(store[i])].count = 3
        /\ store[i].timesFound = 3
        /\ Len(store[i].breachSources) = 1

\* The actions of two lists agree up to their completed flags.
SameActions(a, b) ==
    /\ Len(a) = Len(b)
    /\ \A i \in 1..Len(a) :
            a[i].action = b[i].action /\ a[i].priority = b[i].priority

\* C5 as stated: riskLevel is the risk function of breachSources and
\* recommendedActions is exactly the list generated for riskLevel, whatever
\* operation ran.
C5_DerivedFieldsExact ==
    \A i \in 1..Len(store) :
        /\ store[i].riskLevel = calculateRiskLevel(store[i].breachSources)
        /\ store[i].recommendedActions =
                generateRecommendedActions(store[i].riskLevel)

\* C5 amended: riskLevel is the risk function of breachSources, and
\* recommendedActions is the list generated for riskLevel up to the
\* completed flags, which markActionCompleted sets.
C5_DerivedFieldsUpToCompleted ==
    \A i \in 1..Len(store) :
        /\ store[i].riskLevel = calculateRiskLevel(store[i].breachSources)
        /\ SameActions(store[i].recommendedActions,
                       generateRecommendedActions(store[i].riskLevel))

C5_Witness ==
    \E i \in 1..Len(store) :
        /\ store[i].riskLevel = "critical"
        /\ store[i].userAcknowledged
        /\ \E a \in 1..Len(store[i].recommendedActions) :
                store[i].recommendedActions[a].completed

\* The number of sources of a severity, counted source by source.
RECURSIVE CountSeverity(_, _)
CountSeverity(breachSources, severity) ==
    IF breachSources = <<>> THEN 0
    ELSE (IF Head(breachSources).severity = severity THEN 1 ELSE 0)
         + CountSeverity(Tail(breachSources), severity)

\* C6: calculateRiskLevel is critical with at least one critical or high
\* source; otherwise high with more than 2 medium sources; otherwise medium
\* with at least 1 medium source; otherwise low (also for no sources).
C6_RiskLevelRule ==
    LET srcs == fn.breachSources
        anyHigh == \E i \in 1..Len(srcs) : srcs[i].severity \in {"critical", "high"}
        medium == CountSeverity(srcs, "medium")
    IN  /\ anyHigh => fn.riskLevel = "critical"
        /\ (~anyHigh /\ medium > 2) => fn.riskLevel = "high"
        /\ (~anyHigh /\ medium \in {1, 2}) => fn.riskLevel = "medium"
        /\ (~anyHigh /\ medium = 0) => fn.riskLevel = "low"

\* Three medium sources and a low one: high.
C6_Witness ==
    /\ CountSeverity(fn.breachSources, "medium") = 3
    /\ CountSeverity(fn.breachSources, "low") = 1
    /\ fn.riskLevel = "high"

MfaActions ==
    {"Enable Two-Factor Authentication", "Review and update security questions",
     "Check for unauthorized account access"}

\* C7: the generated list starts with the high-priority change-password
\* action and ends with the medium-priority monitor action; it holds the
\* three extra actions exactly when riskLevel is high or critical; no
\* generated action is completed.
C7_RecommendedActionsRule ==
    LET acts == fn.recommendedActions
        names == {acts[i].action : i \in 1..Len(acts)}
    IN  /\ Len(acts) >= 2
        /\ acts[1].action = "Change password immediately"
        /\ acts[1].priority = "high"
        /\ acts[Len(acts)].action = "Monitor account for suspicious activity"
        /\ acts[Len(acts)].priority = "medium"
        /\ (fn.riskLevel \in {"high", "critical"}) <=> (MfaActions \subseteq names)
        /\ (fn.riskLevel \notin {"high", "critical"}) => (MfaActions \cap names = {})
        /\ \A i \in 1..Len(acts) : ~acts[i].completed

\* A high (not critical) risk level with the extra actions.
C7_Witness ==
    /\ fn.riskLevel = "high"
    /\ Len(fn.recommendedActions) = 5

\* C8: a check whose corpus exchange failed ends in an error response that
\* says nothing about breached, and its handler goes no further: it reads
\* and writes no record and makes no send.
C8_FailedLookupIsAnError ==
    /\ \A p \in Procs : req[p].lookup # "failed"
    /\ resp.lookup = "failed" =>
            /\ resp.status = "error"
            /\ ~HasField(resp.data, "breached")
            /\ ~resp.found
            /\ resp.email = None /\ resp.sms = None

C8_Witness ==
    /\ resp.op = "check"
    /\ resp.lookup = "failed"
    /\ resp.status = "error"
    /\ serviceDef = 2
    /\ Len(store) > 0

\* C9: a check whose corpus exchange carried the password's suffix is
\* answered breached=true with count, severity, riskLevel,
\* recommendedActions and breachId, and a record for (userId, digest) exists.
C9_MatchIsAnsweredBreached ==
    (resp.op = "check" /\ resp.lookup = "match") =>
        /\ resp.status = "success"
        /\ Truthy(resp.data, "breached")
        /\ {"count", "severity", "riskLevel", "recommendedActions", "breachId"}
                \subseteq DOMAIN resp.data
        /\ RecordsOf(<<resp.userId, generateSHA1Hash(resp.password)>>) # {}

\* C10: when the email send failed and the user has the sms preference and
\* a phone, the SMS send was attempted all the same.
C10_SmsAttemptedAfterEmailFailure ==
    (resp.op = "check" /\ resp.email = "failed"
        /\ findUserById(resp.userId).notificationPreferences.sms
        /\ findUserById(resp.userId).phone)
    => resp.sms # None

\* A send of the answered check failed: it threw, or sendSMS resolved false.
ChannelFailed == resp.email = "failed" \/ resp.sms \in {"failed", "false"}

\* C11: a check during which a notification channel failed is still answered
\* with the breached result, and the record it created or merged into is
\* stored as the dispatch found it: the record exists under the request's
\* key, holds the reported source, and a merge's lastChecked is kept.
C11_ChannelFailureNotEscalated ==
    (resp.op = "check" /\ ChannelFailed) =>
        /\ resp.status = "success"
        /\ Truthy(resp.data, "breached")
        /\ HasField(resp.data, "breachId")
        /\ resp.data.breachId \in 1..Len(store)
        /\ LET rec == store[resp.data.breachId]
           IN  /\ KeyOf(rec) = <<resp.userId, generateSHA1Hash(resp.password)>>
               /\ resp.data.source \in SourceNames(rec)
               /\ rec.timesFound >= 1
               /\ resp.found => rec.lastChecked = "rechecked" /\ rec.timesFound >= 2

\* The email send failed after a merge into an existing record.
C11_Witness ==
    /\ resp.op = "check"
    /\ resp.email = "failed"
    /\ resp.found
    /\ resp.status = "success"
    /\ store[resp.data.breachId].timesFound = 2

\* C12: once no handler is running, the stored notificationsSent of every
\* record equals the number of email sends that resolved for it, whatever
\* the SMS send that followed did and however the checks interleaved.
C12_NotificationsSentCountsEmails ==
    Quiescent =>
        \A i \in 1..Len(store) : store[i].notificationsSent = emailsSent[i]

\* The answered request is a check that reached the dispatch.
Dispatched == resp.op = "check" /\ Truthy(resp.data, "breached")

\* C13: a dispatch attempts the email send exactly when the user's email
\* preference is set, and the SMS send exactly when the sms preference is
\* set and the user has a phone; a dispatch is never an error.
C13_ChannelsFollowPreferences ==
    Dispatched =>
        LET user == findUserById(resp.userId)
        IN  /\ (resp.email # None) <=> user.notificationPreferences.email
            /\ (resp.sms # None) <=>
                    (user.notificationPreferences.sms /\ user.phone)
            /\ resp.status = "success"

\* C14: an acknowledge of a record the caller does not own is answered with
\* the 404 failure and writes nothing: only the owner's acknowledge reaches
\* the save, the step that receives an acknowledge leaves the collection as
\* it is, and the save of an acknowledge writes the addressed record only.
C14_AcknowledgeByNonOwnerFails ==
    /\ [](\A p \in Procs :
            pc[p] = "ackSave" => store[req[p].breachId].userId = req[p].userId)
    /\ []((resp.op = "ack" /\ resp.breachId \in 1..Len(store)
            /\ store[resp.breachId].userId # resp.userId)
          => (resp.status = "fail" /\ resp.code = 404))
    /\ [][(started' = started + 1 /\ resp'.op = "ack") => store' = store]_vars
    /\ [][\A p \in Procs :
            (pc[p] = "ackSave" /\ pc'[p] = "idle") =>
                /\ Len(store') = Len(store)
                /\ \A i \in 1..Len(store) :
                        i # req[p].breachId => store'[i] = store[i]]_vars

\* u2 was refused the acknowledge of a record of u1, which is still
\* unacknowledged.
C14_Witness ==
    /\ resp.op = "ack"
    /\ resp.code = 404
    /\ resp.breachId \in 1..Len(store)
    /\ store[resp.breachId].userId # resp.userId
    /\ ~store[resp.breachId].userAcknowledged
    /\ store[resp.breachId].acknowledgedAt = None

\* C15: a save made by a check (the save of a creation or a merge, or the
\* save after the dispatch) leaves every acknowledged record acknowledged,
\* with the acknowledgedAt it had.
C15_MergeKeepsAcknowledgment ==
    [][\A p \in Procs :
        (pc[p] \in {"save", "save2"} /\ pc'[p] # pc[p]) =>
            \A i \in 1..Len(store) :
                store[i].userAcknowledged =>
                    /\ store'[i].userAcknowledged
                    /\ store'[i].acknowledgedAt = store[i].acknowledgedAt]_vars

\* A finding was merged into a record that findOne returned acknowledged.
C15_Witness ==
    \E p \in Procs :
        /\ pc[p] = "notify"
        /\ req[p].found
        /\ req[p].doc.userAcknowledged
        /\ store[req[p].doc.id].userAcknowledged
        /\ store[req[p].doc.id].acknowledgedAt = "set"
        /\ store[req[p].doc.id].timesFound = 2

\* C16: a markActionCompleted whose actionIndex is negative or not below the
\* number of recommendedActions is answered with the 400 failure and never
\* reaches the save; the completed flags of stored actions change only in
\* the save of a markActionCompleted, which sets the flag of the addressed
\* action of the addressed record and changes nothing else, so that doing it
\* again leaves the collection as it is.
C16_CompleteActionInRange ==
    /\ [](\A p \in Procs :
            pc[p] = "actionSave" =>
                /\ req[p].actionIndex >= 0
                /\ req[p].actionIndex <
                        Len(store[req[p].breachId].recommendedActions))
    /\ []((resp.op = "action" /\ resp.found
            /\ (resp.actionIndex < 0
                \/ resp.actionIndex >= Len(store[resp.breachId].recommendedActions)))
          => (resp.status = "fail" /\ resp.code = 400))
    /\ [][\A p \in Procs :
            (pc[p] = "actionSave" /\ pc'[p] = "idle") =>
                store' = [store EXCEPT
                    ![req[p].breachId].recommendedActions[req[p].actionIndex + 1].completed
                        = TRUE]]_vars
    /\ [][(\E i \in 1..Len(store) :
                \E a \in 1..Len(store[i].recommendedActions) :
                    store'[i].recommendedActions[a].completed
                        # store[i].recommendedActions[a].completed)
            => \E p \in Procs : pc[p] = "actionSave" /\ pc'[p] = "idle"]_vars

\* The second action of a record was marked; its first action is not.
C16_Witness ==
    /\ resp.op = "action"
    /\ resp.status = "success"
    /\ resp.actionIndex = 1
    /\ store[resp.breachId].recommendedActions[2].completed
    /\ ~store[resp.breachId].recommendedActions[1].completed

\* C17: no step removes a record or changes the _id, userId or passwordHash
\* of a stored record: the collection only grows, and every record keeps its
\* place and its key.
C17_RecordsAreNeverDeleted ==
    [][/\ Len(store') >= Len(store)
       /\ \A i \in 1..Len(store) :
            /\ store'[i].id = store[i].id
            /\ store'[i].userId = store[i].userId
            /\ store'[i].passwordHash = store[i].passwordHash]_vars

\* Two records are stored and a mark-all-read has just been answered.
C17_Witness ==
    /\ Len(store) = 2
    /\ resp.op = "readAll"
    /\ \E i \in 1..Len(store) :
            store[i].userId = resp.userId /\ store[i].userAcknowledged

\* The order of the severities.
SeverityRank(severity) ==
    CASE severity = "low" -> 0
      [] severity = "medium" -> 1
      [] severity = "high" -> 2
      [] severity = "critical" -> 3

\* The severity the thresholds give a count.
SeverityOf(count, severity) ==
    /\ count >= 100000 => severity = "critical"
    /\ (10000 <= count /\ count < 100000) => severity = "high"
    /\ (1000 <= count /\ count < 10000) => severity = "medium"
    /\ count < 1000 => severity = "low"

\* C18: calculateSeverity follows the thresholds 100000, 10000 and 1000, and
\* is monotonic: of two counts the smaller never gets the more severe level.
C18_SeverityThresholdsMonotonic ==
    fn.s1 # None =>
        /\ SeverityOf(fn.c1, fn.s1)
        /\ SeverityOf(fn.c2, fn.s2)
        /\ fn.c1 <= fn.c2 => SeverityRank(fn.s1) <= SeverityRank(fn.s2)

\* The two counts on either side of the high threshold.
C18_Witness ==
    /\ fn.c1 = 9999 /\ fn.s1 = "medium"
    /\ fn.c2 = 10000 /\ fn.s2 = "high"

\* C19: getHashPrefix returns a prefix of 5 characters and a suffix of 35
\* characters that, joined, are the digest generateSHA1Hash returns.
C19_SplitIsLossless ==
    fn.stage # "drawn" =>
        /\ Len(fn.h1.prefix) = 5 /\ Len(fn.h1.suffix) = 35
        /\ fn.h1.prefix \o fn.h1.suffix = generateSHA1Hash(fn.p1)
        /\ Len(fn.h2.prefix) = 5 /\ Len(fn.h2.suffix) = 35
        /\ fn.h2.prefix \o fn.h2.suffix = generateSHA1Hash(fn.p2)

C19_Witness ==
    /\ fn.stage = "split"
    /\ fn.p1 = "testpassword"
    /\ fn.h1 = [prefix |-> "8BB61", suffix |-> "18F8FD6935AD0876A3BE34A717D32708FFD"]

\* str holds sub as a run of consecutive characters.
Contains(str, sub) ==
    \E i \in 1..(Len(str) - Len(sub) + 1) : SubSeq(str, i, i + Len(sub) - 1) = sub

RangeUrl == "https://api.pwnedpasswords.com/range/"

\* What a request shows of a password: its URL is the range endpoint
\* followed by the prefix and nothing else, so neither the suffix, the
\* digest nor the password is in it.
ShowsPrefixOnly(request, password) ==
    LET split == getHashPrefix(password)
        path == SubSeq(request.url, Len(RangeUrl) + 1, Len(request.url))
    IN  /\ request.url = RangeUrl \o split.prefix
        /\ ~Contains(request.url, split.suffix)
        /\ ~Contains(request.url, generateSHA1Hash(password))
        /\ password # "" => ~Contains(path, password)

\* C20: the lookup request depends on the 5-character prefix only: two
\* passwords whose digests share the prefix get identical requests, the
\* headers and options are the same for any two passwords, and no request
\* holds the password, the suffix or the whole digest.
C20_RequestDependsOnPrefixOnly ==
    fn.stage = "requested" =>
        /\ fn.h1.prefix = fn.h2.prefix => fn.r1 = fn.r2
        /\ fn.r1.headers = fn.r2.headers
        /\ fn.r1.timeout = fn.r2.timeout
        /\ ShowsPrefixOnly(fn.r1, fn.p1)
        /\ ShowsPrefixOnly(fn.r2, fn.p2)

\* Two different passwords with the same prefix, and their one request.
C20_Witness ==
    /\ fn.stage = "requested"
    /\ fn.p1 = "pw2001" /\ fn.p2 = "pw2501"
    /\ fn.h1.suffix # fn.h2.suffix
    /\ fn.r1 = fn.r2
    /\ fn.r1.url = "https://api.pwnedpasswords.com/range/DC0A5"

\* Two strings are equal ignoring case.
EqualIgnoringCase(a, b) == toLowerCase(a) = toLowerCase(b)

\* The lines of a successful response whose suffix is the local suffix of
\* the password, ignoring case.
MatchingLines(password, response) ==
    {k \in 1..Len(response.lines) :
        EqualIgnoringCase(response.lines[k].suffix, getHashPrefix(password).suffix)}

\* C21: for a successful lookup response, checkPasswordBreach reports
\* breached = true exactly when a response line's suffix equals the local
\* suffix ignoring case, with that line's count and severity =
\* calculateSeverity(count); when no line matches it reports breached =
\* false, count 0 and severity "none".
C21_LookupResult ==
    fn.mode = "single" =>
        \A k \in 1..Len(fn.results) :
            fn.responses[k].ok =>
                LET result == fn.results[k]
                    hits == MatchingLines(fn.passwords[k], fn.responses[k])
                IN  /\ HasField(result, "breached")
                    /\ HasField(result, "count")
                    /\ HasField(result, "severity")
                    /\ result.breached = (hits # {})
                    /\ hits # {} =>
                         /\ \E h \in hits : result.count = fn.responses[k].lines[h].count
                         /\ result.severity = calculateSeverity(result.count)
                    /\ hits = {} =>
                         /\ result.count = 0
                         /\ result.severity = "none"

\* C22: a check request with a missing or empty password is answered as a
\* validation failure before any side effect: no lookup request is issued,
\* no record is created or changed, and no notification is sent.
C22_EmptyPasswordRejected ==
    /\ [](resp.op = "check" /\ resp.password = "" =>
            /\ resp.status = "fail"
            /\ resp.code = 400
            /\ resp.lookups = 0
            /\ resp.lookup = None
            /\ ~resp.found
            /\ resp.emailAttempts = 0
            /\ resp.smsAttempts = 0)
    /\ [][(started' = started + 1 /\ pc' = pc
                /\ resp'.op = "check" /\ resp'.password = "") =>
            /\ store' = store
            /\ emailsSent' = emailsSent
            /\ findings' = findings]_vars

C22_Witness ==
    /\ resp.op = "check"
    /\ resp.password = ""
    /\ resp.code = 400
    /\ Len(store) > 0

\* The sum of f over a finite set of units of work.
RECURSIVE SumOver(_, _)
SumOver(set, f) ==
    IF set = {} THEN 0
    ELSE LET p == CHOOSE q \in set : TRUE
         IN  f[p] + SumOver(set \ {p}, f)

\* The checks that have called the service and not yet answered.
ChecksInFlight == {p \in Procs : req[p].op = "check"}

\* C25: every operation is single-attempt: a checkPasswordBreach call issues
\* exactly one lookup request whether it succeeds or fails, a notify makes
\* at most one send attempt per channel, and k concurrent checks issue
\* exactly k lookup requests.
C25_SingleAttempt ==
    /\ \A p \in ChecksInFlight :
            /\ req[p].lookups = 1
            /\ req[p].emailAttempts <= 1
            /\ req[p].smsAttempts <= 1
    /\ SumOver(ChecksInFlight, [p \in Procs |-> req[p].lookups])
            = Cardinality(ChecksInFlight)
    /\ resp.op = "check" =>
            /\ resp.lookups = (IF resp.password = "" THEN 0 ELSE 1)
            /\ resp.lookup \in {"failed", "nomatch", "match"} => resp.lookups = 1
            /\ resp.emailAttempts <= 1
            /\ resp.smsAttempts <= 1
            /\ resp.email \in {"ok", "failed"} <=> resp.emailAttempts = 1
            /\ resp.sms \in {"ok", "false", "failed"} <=> resp.smsAttempts = 1

\* Two checks are in flight after a check whose lookup failed.
C25_Witness ==
    /\ Cardinality(ChecksInFlight) = 2
    /\ resp.op = "check"
    /\ resp.lookup = "failed"
    /\ resp.lookups = 1

\* C24: in checkMultiplePasswords, the entry of a password whose lookup
\* failed does not report it as not breached (isBreached = false).
C24_FailedLookupStaysUnknown ==
    fn.mode = "batch" =>
        \A k \in 1..Len(fn.results) :
            ~fn.responses[k].ok =>
                ~(HasField(fn.results[k], "isBreached")
                    /\ fn.results[k].isBreached = FALSE)

\* The users whose statistics are asked for; "u3" owns no record.
StatsUsers == {"u1", "u2", "u3"}

\* The number of records of the collection owned by userId that satisfy a
\* condition, counted record by record.
RECURSIVE CountOwned(_, _, _, _)
CountOwned(st, userId, field, value) ==
    IF st = <<>> THEN 0
    ELSE (IF Head(st).userId = userId /\ Head(st)[field] = value THEN 1 ELSE 0)
            + CountOwned(Tail(st), userId, field, value)

\* C23: getUserBreachStats and getGlobalBreachStats change no record, and in
\* every state the per-user result has totalBreaches = the number of records
\* of the user, the four risk-level counts summing to totalBreaches,
\* activeBreaches and acknowledgedBreaches counting the user's records with
\* isActive / userAcknowledged true, and every count 0 without records.
C23_UserStats ==
    /\ [](\A userId \in StatsUsers :
            LET stats == getUserBreachStats(store, userId)
                total == CountOwned(store, userId, "userId", userId)
            IN  /\ stats.totalBreaches = total
                /\ stats.criticalBreaches + stats.highBreaches
                    + stats.mediumBreaches + stats.lowBreaches = total
                /\ stats.activeBreaches = CountOwned(store, userId, "isActive", TRUE)
                /\ stats.acknowledgedBreaches
                    = CountOwned(store, userId, "userAcknowledged", TRUE)
                /\ total = 0 =>
                    \A f \in DOMAIN stats : stats[f] = 0)
    /\ [][(started' = started + 1 /\ pc' = pc /\ resp'.op \in {"history", "stats"}) =>
            /\ store' = store
            /\ resp'.op = "history" =>
                    resp'.data.statistics = getUserBreachStats(store, resp'.userId)]_vars

\* A history answer whose statistics count the one record of the user while
\* another user owns a record too.
C23_Witness ==
    /\ resp.op = "history"
    /\ resp.data.statistics.totalBreaches = 1
    /\ resp.data.statistics.activeBreaches = 1
    /\ resp.data.statistics.acknowledgedBreaches = 0
    /\ Len(store) = 2

\* The actions of a record that are marked completed, by their text.
CompletedActions(doc) ==
    {doc.recommendedActions[i].action :
        i \in {j \in 1..Len(doc.recommendedActions) :
                    doc.recommendedActions[j].completed}}

IsPrefix(s, t) == Len(s) <= Len(t) /\ SubSeq(t, 1, Len(s)) = s

\* The sequence with the elements at positions i and j exchanged.
Swap(s, i, j) ==
    [k \in 1..Len(s) |-> IF k = i THEN s[j] ELSE IF k = j THEN s[i] ELSE s[k]]

C28_AcknowledgedOneWay ==
    /\ [](\A i \in 1..Len(store) :
            store[i].userAcknowledged => store[i].acknowledgedAt = "set")
    /\ [][/\ \A i \in 1..Len(store) :
                /\ store[i].userAcknowledged => store'[i].userAcknowledged
                /\ store[i].acknowledgedAt = "set" => store'[i].acknowledgedAt = "set"
          /\ \A p \in Procs :
                (pc[p] \in {"ackSave", "readSave"} /\ pc'[p] = "idle") =>
                    /\ store'[req[p].doc.id].userAcknowledged
                    /\ store'[req[p].doc.id].acknowledgedAt = "set"
          /\ (started' = started + 1 /\ pc' = pc /\ resp'.op = "readAll") =>
                \A i \in 1..Len(store') :
                    store'[i].userId = resp'.userId =>
                        /\ store'[i].userAcknowledged
                        /\ store'[i].acknowledgedAt = "set"]_vars

\* A record that was acknowledged and found again afterwards.
C28_Witness ==
    \E i \in 1..Len(store) :
        /\ store[i].userAcknowledged
        /\ store[i].acknowledgedAt = "set"
        /\ store[i].timesFound > 1

\* The records of other users than userId are the same in st and in next.
OthersUnchanged(st, next, userId) ==
    \A i \in 1..Len(st) : st[i].userId # userId => next[i] = st[i]

\* C29: no operation invoked by a user reads or changes a record owned by
\* another user: getBreachById, history, search and notifications return
\* only records of the caller, and acknowledge, completeAction,
\* markNotificationAsRead and markAllNotificationsAsRead leave every record
\* of another user unchanged.
C29_OwnRecordsOnly ==
    /\ [](/\ resp.op \in {"history", "search", "notifications"} =>
                \A i \in resp.data.breaches :
                    i \in 1..Len(store) /\ store[i].userId = resp.userId
          /\ (resp.op = "get" /\ resp.code = 200) =>
                store[resp.data.breach].userId = resp.userId
          /\ (resp.op = "get" /\ resp.code # 200) =>
                ~HasField(resp.data, "breach"))
    /\ [][/\ \A p \in Procs :
                (pc[p] \in {"ackSave", "actionSave", "readSave"} /\ pc'[p] = "idle") =>
                    OthersUnchanged(store, store', req[p].userId)
          /\ (started' = started + 1
                /\ resp'.op \in {"ack", "action", "read", "readAll"}) =>
                    /\ Len(store') = Len(store)
                    /\ OthersUnchanged(store, store', resp'.userId)]_vars

\* All notifications of u2 were marked as read while u1 owns a record that
\* is not acknowledged.
C29_Witness ==
    /\ resp.op = "readAll"
    /\ \E i, j \in 1..Len(store) :
            /\ store[i].userId = "u1"
            /\ ~store[i].userAcknowledged
            /\ store[j].userId = resp.userId
            /\ store[j].userAcknowledged

====
